---- MODULE Spec2Model ----
(***************************************************************************)
(* A model of src/main.rs: a Bevy demo with one startup system (setup) and *)
(* four per-frame systems (tick, rotate_entity, move_camera, zoom_camera). *)
(*                                                                         *)
(* Numbers.  Every f32 of the program is a fixed-point integer counting    *)
(* thousandths: 1.0 is 1000, 0.025 is 25, a delta of half a second is 500. *)
(* FMul and FDiv are the fixed-point product and quotient.  The inputs are *)
(* chosen so that no product or quotient of the program rounds.            *)
(*                                                                         *)
(* Rotations.  Every quaternion of the program is a rotation about z, so   *)
(* it is modelled by its angle in milliradians, reduced modulo FULL_TURN.  *)
(*                                                                         *)
(* Vectors.  A Vec3 is [plane, z].  plane is the x-y part, written as a    *)
(* sum of lengths along directions: a function from angles (milliradians   *)
(* from the X axis) to the non-zero length along that direction.  X is     *)
(* direction 0 and Y is direction FULL_TURN / 4.  Rotating a vector about  *)
(* z shifts its directions, which needs no sine or cosine.                 *)
(***************************************************************************)
EXTENDS Integers, Sequences, FiniteSets, TLC

VARIABLES
    stage,          \* "startup" before the startup stage ran, "update" after
    ran,            \* the per-frame systems that have run in the current frame
    setupRuns,      \* how many times the startup system has run
    rng,            \* the state of rand::thread_rng()
    transform,      \* Transform components, by entity
    sprite,         \* Sprite components, by entity
    direction,      \* Direction components, by entity
    rotationRate,   \* RotationRate components, by entity
    position,       \* Position components, by entity
    printTimer,     \* PrintTimer components, by entity
    projection,     \* OrthographicProjection components, by entity
    camera,         \* the entities with a Camera component
    time,           \* Res<Time>: delta and seconds since startup
    windows,        \* Res<Windows>: the primary window
    mouseWheel,     \* Events<MouseWheel>: the wheel events of the current frame
    wheelRead,      \* EventReader<MouseWheel> of zoom_camera: the events it has read
    windowResized,  \* Events<WindowResized> sent in the current frame
    stdout,         \* the lines printed, each the number it carries
    spawned         \* the rotation of each Transform as setup spawned it

vars == <<stage, ran, setupRuns, rng, transform, sprite, direction,
          rotationRate, position, printTimer, projection, camera, time,
          windows, mouseWheel, wheelRead, windowResized, stdout, spawned>>

----------------------------------------------------------------------------
(* Bounds of the model *)

\* the largest seed of the random generator
MaxSeed == 1
\* the longest frame, in seconds
MaxDeltaSeconds == 2
\* the run is followed for this many seconds
MaxSeconds == 2
\* the most wheel events of one frame
MaxEvents == 2
\* the largest scroll of one wheel event, in lines
MaxScroll == 100

----------------------------------------------------------------------------
(* Fixed-point numbers *)

F(n) == n * 1000

FMul(a, b) == (a * b) \div 1000

FDiv(a, b) == (a * 1000) \div b

\* `x as i32`: truncation toward zero
AsI32(a) == IF a >= 0 THEN a \div 1000 ELSE -((-a) \div 1000)

\* f32::max and f32::min
FMax(a, b) == IF a >= b THEN a ELSE b

FMin(a, b) == IF a <= b THEN a ELSE b

\* a range that takes its upper end in
RangeInclusive(a, b) == a..b

\* a Rust range a..b: from a, up to and without b
Range(a, b) == a..(b - 1)

----------------------------------------------------------------------------
(* Program constants *)

CAMERA_SPEED == 10000
SCALE_FACTOR == 25
\* Vec2::splat(64.0)
TILE_SIZE == 64000
\* Vec2::splat(320.0)
MAP_SIZE == 320000
\* the divisor of half_x and half_y, 32.0
HALF_DIVISOR == 32000
\* Timer::from_seconds(1.0, true)
TIMER_SECONDS == 1000
\* the z of Position, 1000.0
POSITION_Z == 1000000
\* the bounds of the zoom, 0.1 and 1.0
MIN_SCALE == 100
MAX_SCALE == 1000
\* the angular rate of the pose, 0.5, and the divisor of the render rotation, 2.0
POSE_RATE == 500
RENDER_DIVISOR == 2000
\* the factors of the random scale and rate, 2.0 and 5.0
SCALE_SPREAD == 2000
RATE_SPREAD == 5000
\* the threshold of the random direction, 0.5
DIRECTION_THRESHOLD == 500
\* the turn of Quat::from_rotation_z, 2 pi in milliradians (to a multiple of 4)
FULL_TURN == 6284

----------------------------------------------------------------------------
(* Quat, Vec3, Transform *)

\* Quat::from_rotation_z(angle)
FromRotationZ(angle) == angle % FULL_TURN

\* Quat * Quat, both about z
QuatMul(p, q) == (p + q) % FULL_TURN

QuatIdentity == 0

\* a function without its zero entries
NonZero(f) == [a \in {b \in DOMAIN f : f[b] # 0} |-> f[a]]

\* Vec3::new(x, y, z)
Vec3New(x, y, z) ==
    [plane |-> NonZero([a \in {0, FULL_TURN \div 4} |-> IF a = 0 THEN x ELSE y]),
     z |-> z]

Coef(f, a) == IF a \in DOMAIN f THEN f[a] ELSE 0

\* Vec3 + Vec3
Vec3Add(u, v) ==
    [plane |-> NonZero([a \in DOMAIN u.plane \cup DOMAIN v.plane |->
                            Coef(u.plane, a) + Coef(v.plane, a)]),
     z |-> u.z + v.z]

\* Vec3 * f32
Vec3Scale(u, s) ==
    [plane |-> NonZero([a \in DOMAIN u.plane |-> FMul(u.plane[a], s)]),
     z |-> FMul(u.z, s)]

\* Quat * Vec3, the quaternion about z
QuatRotate(q, u) ==
    [plane |-> [a \in {(b + q) % FULL_TURN : b \in DOMAIN u.plane} |->
                    u.plane[(a - q) % FULL_TURN]],
     z |-> u.z]

\* Transform::from_translation(v)
FromTranslation(v) == [translation |-> v, rotation |-> QuatIdentity, scale |-> F(1)]

\* Transform * Transform (Transform::mul_transform)
MulTransform(t, u) ==
    [translation |-> Vec3Add(QuatRotate(t.rotation, Vec3Scale(u.translation, t.scale)),
                             t.translation),
     rotation |-> QuatMul(t.rotation, u.rotation),
     scale |-> FMul(t.scale, u.scale)]

\* Transform::rotate(q)
Rotate(t, q) == [t EXCEPT !.rotation = QuatMul(t.rotation, q)]

----------------------------------------------------------------------------
(* rand::thread_rng(): a stream fixed by a seed nobody chooses *)

\* the seeds drawn
Seeds == 1..MaxSeed

\* the generator's state after n more draws
RngSkip(s, n) == (s + 7 * n) % 10

\* the generator's next state
RngNext(s) == RngSkip(s, 1)

\* rng.gen::<f32>() of a generator in state s: a value in [0, 1)
Gen(s) == s * 100

----------------------------------------------------------------------------
(* setup *)

CameraEntity == 0

\* OrthographicCameraBundle::new_2d(): the render transform sits at z = far - 0.1
\* with far = 1000.0, and the projection's scale is 1.0
CameraTransform == FromTranslation(Vec3New(0, 0, F(1000) - 100))

CameraProjection == [scale |-> F(1)]

\* Timer::from_seconds(duration, repeating)
TimerFromSeconds(duration, repeating) ==
    [elapsed |-> 0, duration |-> duration, repeating |-> repeating,
     finished |-> FALSE, times_finished |-> 0]

half_x == AsI32(FDiv(MAP_SIZE, HALF_DIVISOR))

half_y == AsI32(FDiv(MAP_SIZE, HALF_DIVISOR))

\* for y in -half_y..half_y
Rows == Range(-half_y, half_y)

\* for x in -half_x..half_x
Columns == Range(-half_x, half_x)

\* the iterations of the inner loop's body before the one of x and y
Iteration(x, y) == (y - (-half_y)) * Cardinality(Columns) + (x - (-half_x))

\* the draws of the generator in one iteration
DrawsPerSprite == 5

\* the body of the inner loop: one sprite entity, from a generator in state s
SpawnSprite(s, x, y) ==
    LET s1 == RngNext(s)
        s2 == RngNext(s1)
        s3 == RngNext(s2)
        s4 == RngNext(s3)
        s5 == RngNext(s4)
        translation == Vec3New(FMul(F(x), TILE_SIZE), FMul(F(y), TILE_SIZE), Gen(s1))
        rotation == FromRotationZ(Gen(s2))
        scale == FMul(Gen(s3), SCALE_SPREAD)
    IN  [transform |-> [translation |-> translation, rotation |-> rotation,
                        scale |-> scale],
         sprite |-> [size |-> TILE_SIZE],
         direction |-> IF Gen(s4) > DIRECTION_THRESHOLD
                       THEN "CounterClockwise" ELSE "Clockwise",
         rotationRate |-> FMul(Gen(s5), RATE_SPREAD)]

\* the entity of the sprite of x and y: the camera's is spawned first
SpriteEntity(x, y) == CameraEntity + 1 + Iteration(x, y)

\* the x and y of the iteration that spawns entity e
CellX(e) == -half_x + ((e - CameraEntity - 1) % Cardinality(Columns))

CellY(e) == -half_y + ((e - CameraEntity - 1) \div Cardinality(Columns))

\* the sprite entities of the two loops, each with its bundle
SpawnGrid(s) ==
    [e \in {SpriteEntity(c[1], c[2]) : c \in Columns \X Rows} |->
        SpawnSprite(RngSkip(s, DrawsPerSprite * Iteration(CellX(e), CellY(e))),
                    CellX(e), CellY(e))]

setup ==
    /\ stage = "startup"
    /\ LET bundles == SpawnGrid(rng)
           sprites == DOMAIN bundles
           spawn == [e \in {CameraEntity} \cup sprites |->
                        IF e = CameraEntity THEN CameraTransform
                        ELSE bundles[e].transform]
       IN  /\ rng' = RngSkip(rng, DrawsPerSprite * Cardinality(sprites))
           /\ transform' = spawn
           /\ spawned' = [e \in DOMAIN spawn |-> spawn[e].rotation]
           /\ sprite' = [e \in sprites |-> bundles[e].sprite]
           /\ direction' = [e \in sprites |-> bundles[e].direction]
           /\ rotationRate' = [e \in sprites |-> bundles[e].rotationRate]
    /\ camera' = {CameraEntity}
    /\ projection' = [e \in {CameraEntity} |-> CameraProjection]
    /\ printTimer' = [e \in {CameraEntity} |-> TimerFromSeconds(TIMER_SECONDS, TRUE)]
    /\ position' = [e \in {CameraEntity} |-> FromTranslation(Vec3New(0, 0, POSITION_Z))]
    /\ setupRuns' = setupRuns + 1
    /\ stage' = "update"
    /\ ran' = {}
    /\ UNCHANGED <<time, windows, mouseWheel, wheelRead, windowResized, stdout>>

----------------------------------------------------------------------------
(* main: the schedule *)

Systems == {"tick", "rotate_entity", "move_camera", "zoom_camera"}

\* .label(...)
Labels(s) ==
    CASE s = "tick" -> {"Tick"}
      [] s = "rotate_entity" -> {"Game"}
      [] OTHER -> {}

\* the schedule without rotate_entity's .after("Tick")
AfterUnordered(s) ==
    CASE s = "move_camera" -> {"Game"}
      [] s = "zoom_camera" -> {"Game"}
      [] OTHER -> {}

\* .after(...)
After(s) ==
    CASE s = "tick" -> {}
      [] s = "rotate_entity" -> {"Tick"}
      [] s = "move_camera" -> {"Game"}
      [] s = "zoom_camera" -> {"Game"}

\* a system runs once per frame, after every system that carries a label it is after
CanRun(s) ==
    /\ stage = "update"
    /\ s \notin ran
    /\ \A t \in Systems : Labels(t) \cap After(s) # {} => t \in ran

----------------------------------------------------------------------------
(* tick *)

\* Timer::tick(delta)
TimerTick(t, delta) ==
    IF ~t.repeating /\ t.finished THEN [t EXCEPT !.times_finished = 0]
    ELSE LET elapsed == t.elapsed + delta
             finished == elapsed >= t.duration
         IN  IF finished /\ t.repeating
             THEN [t EXCEPT !.finished = TRUE,
                            !.times_finished = elapsed \div t.duration,
                            !.elapsed = elapsed - t.duration * (elapsed \div t.duration)]
             ELSE IF finished
             THEN [t EXCEPT !.finished = TRUE, !.times_finished = 1,
                            !.elapsed = t.duration]
             ELSE [t EXCEPT !.finished = FALSE, !.times_finished = 0,
                            !.elapsed = elapsed]

\* Timer::just_finished()
JustFinished(t) == t.times_finished > 0

\* a count of every entity with a Transform, the camera's too
SpriteCountAll == Cardinality(DOMAIN transform)

\* sprites.iter().count()
SpriteCount == Cardinality(DOMAIN sprite)

RECURSIVE Lines(_, _)
Lines(k, n) == IF k = 0 THEN <<>> ELSE Append(Lines(k - 1, n), n)

\* a line for every time the timer finished within the frame
PrintlnPerElapse(ticked, n) ==
    stdout \o Lines(ticked[CameraEntity].times_finished, n)

\* println!("Sprites: {}", n), once per timer of the query that just finished
Println(ticked, n) ==
    stdout \o [i \in 1..Cardinality({e \in DOMAIN ticked : JustFinished(ticked[e])}) |-> n]

tick ==
    /\ CanRun("tick")
    /\ LET ticked == [e \in DOMAIN printTimer |-> TimerTick(printTimer[e], time.delta)]
       IN  /\ printTimer' = ticked
           /\ stdout' = Println(ticked, SpriteCount)
    /\ ran' = ran \cup {"tick"}
    /\ UNCHANGED <<stage, setupRuns, rng, transform, sprite, direction, rotationRate,
                   position, projection, camera, time, windows, mouseWheel,
                   wheelRead, windowResized, spawned>>

----------------------------------------------------------------------------
(* rotate_entity *)

\* Query<(&mut Transform, &Direction, &RotationRate)>
RotateQuery == DOMAIN transform \cap DOMAIN direction \cap DOMAIN rotationRate

\* the two arms of the match swapped
RotationDirectionSwapped(d) == IF d = "Clockwise" THEN -F(1) ELSE F(1)

\* match *direction { ... }
RotationDirection(d) == IF d = "Clockwise" THEN F(1) ELSE -F(1)

\* *transform = Transform::from_rotation(q) * *transform: a turn of the whole
\* transform about the origin, translation too
RotateOneAboutOrigin(t, delta, d, rate) ==
    MulTransform(Rotate(FromTranslation(Vec3New(0, 0, 0)),
                        FromRotationZ(FMul(FMul(delta, (IF d = "Clockwise"
                                                        THEN F(1) ELSE -F(1))), rate))),
                 t)

\* the body of the loop
RotateOne(t, delta, d, rate) ==
    [t EXCEPT !.rotation =
        QuatMul(t.rotation, FromRotationZ(FMul(FMul(delta, RotationDirection(d)), rate)))]

rotate_entity ==
    /\ CanRun("rotate_entity")
    /\ LET query == RotateQuery
       IN  transform' = [e \in query |->
                            RotateOne(transform[e], time.delta, direction[e],
                                      rotationRate[e])] @@ transform
    /\ ran' = ran \cup {"rotate_entity"}
    /\ UNCHANGED <<stage, setupRuns, rng, sprite, direction, rotationRate, position,
                   printTimer, projection, camera, time, windows, mouseWheel,
                   wheelRead, windowResized, stdout, spawned>>

----------------------------------------------------------------------------
(* move_camera *)

\* Query<(&mut Transform, &mut Position), With<Camera>>
MoveQuery == DOMAIN transform \cap DOMAIN position \cap camera

\* the pose moved along its X axis before it is turned
MovePoseTranslateFirst(p, delta) ==
    Rotate(MulTransform(p, FromTranslation(Vec3New(FMul(FMul(F(1), CAMERA_SPEED), delta),
                                                   0, 0))),
           FromRotationZ(FMul(delta, POSE_RATE)))

\* the pose after the loop's first two statements
MovePose(p, delta) ==
    MulTransform(Rotate(p, FromRotationZ(FMul(delta, POSE_RATE))),
                 FromTranslation(Vec3New(FMul(FMul(F(1), CAMERA_SPEED), delta), 0, 0)))

\* the render transform after the loop's last two statements
MoveRender(t, pose, delta) ==
    [t EXCEPT !.translation = pose.translation,
              !.rotation = QuatMul(t.rotation, FromRotationZ(FDiv(delta, RENDER_DIVISOR)))]

move_camera ==
    /\ CanRun("move_camera")
    /\ LET query == MoveQuery
       IN  /\ position' = [e \in query |-> MovePose(position[e], time.delta)]
                            @@ position
           /\ transform' = [e \in query |->
                              MoveRender(transform[e], MovePose(position[e], time.delta),
                                         time.delta)] @@ transform
    /\ ran' = ran \cup {"move_camera"}
    /\ UNCHANGED <<stage, setupRuns, rng, sprite, direction, rotationRate, printTimer,
                   projection, camera, time, windows, mouseWheel, wheelRead,
                   windowResized, stdout, spawned>>

----------------------------------------------------------------------------
(* zoom_camera *)

\* the scale after one event, without the .max(0.1)
ZoomScaleNoFloor(scale, event) ==
    FMin(scale - FMul(event.y, SCALE_FACTOR), MAX_SCALE)

\* the projection's scale after one event
ZoomScale(scale, event) ==
    FMin(FMax(scale - FMul(event.y, SCALE_FACTOR), MIN_SCALE), MAX_SCALE)

RECURSIVE TotalY(_)
TotalY(events) == IF events = <<>> THEN 0 ELSE Head(events).y + TotalY(Tail(events))

\* the projections after one clamp of the frame's summed scroll
ZoomSummed(proj, events) ==
    IF events = <<>> THEN proj
    ELSE [e \in DOMAIN proj |->
            [proj[e] EXCEPT !.scale =
                FMin(FMax(proj[e].scale - FMul(TotalY(events), SCALE_FACTOR), MIN_SCALE),
                     MAX_SCALE)]]

\* the projections after the events, the outer loop over the events in order
RECURSIVE ZoomProjections(_, _)
ZoomProjections(proj, events) ==
    IF events = <<>> THEN proj
    ELSE ZoomProjections([e \in DOMAIN proj |->
                             [proj[e] EXCEPT !.scale = ZoomScale(proj[e].scale, Head(events))]],
                         Tail(events))

\* windows.get_primary().unwrap()
GetPrimary(w) == w.primary

\* one notification for the frame, however many its events
ZoomResizedOnce(proj, events, w) ==
    IF events = <<>> THEN <<>>
    ELSE <<[id |-> "primary", width |-> w.primary.width, height |-> w.primary.height]>>

\* the notifications sent: one per event and per projection
ZoomResized(proj, events, w) ==
    [i \in 1..(Len(events) * Cardinality(DOMAIN proj)) |->
        [id |-> "primary", width |-> GetPrimary(w).width, height |-> GetPrimary(w).height]]

\* mouse_wheel_events.iter(): the events the reader has not read, in arrival order
Unread(events, read) == SubSeq(events, read + 1, Len(events))

zoom_camera ==
    /\ CanRun("zoom_camera")
    /\ LET events == Unread(mouseWheel, wheelRead)
       IN  /\ projection' = ZoomProjections(projection, events)
           /\ windowResized' = windowResized \o ZoomResized(projection, events, windows)
    /\ wheelRead' = Len(mouseWheel)
    /\ ran' = ran \cup {"zoom_camera"}
    /\ UNCHANGED <<stage, setupRuns, rng, transform, sprite, direction, rotationRate,
                   position, printTimer, camera, time, windows, mouseWheel, stdout,
                   spawned>>

----------------------------------------------------------------------------
(* the engine: a frame begins *)

\* the frame times drawn, in thousandths of a second
Deltas == {0, 500, F(MaxDeltaSeconds)}

\* the scrolls drawn, in lines: a few lines in, and out past any zoom
ScrollYs == {F(16), -F(MaxScroll)}


RECURSIVE SeqsUpTo(_, _)
SeqsUpTo(S, n) ==
    IF n = 0 THEN {<<>>}
    ELSE LET shorter == SeqsUpTo(S, n - 1)
         IN  shorter \cup {Append(q, x) : q \in shorter, x \in S}

\* the runs of wheel events of one frame
WheelEvents == SeqsUpTo({[y |-> v] : v \in ScrollYs}, MaxEvents)

WindowSizes == {[width |-> F(1280), height |-> F(720)],
                [width |-> F(800), height |-> F(600)]}

\* the engine between two frames: Time is updated, the frame's wheel events
\* replace the last frame's, the window may have been resized, the last frame's
\* notifications go
BeginFrame ==
    /\ stage = "update"
    /\ ran = Systems
    /\ \E delta \in Deltas, events \in WheelEvents, size \in WindowSizes :
        /\ time.seconds_since_startup + delta <= F(MaxSeconds)
        /\ time' = [delta |-> delta,
                    seconds_since_startup |-> time.seconds_since_startup + delta]
        /\ mouseWheel' = events
        /\ windows' = [primary |-> size]
    /\ wheelRead' = 0
    /\ windowResized' = <<>>
    /\ ran' = {}
    /\ UNCHANGED <<stage, setupRuns, rng, transform, sprite, direction, rotationRate,
                   position, printTimer, projection, camera, stdout, spawned>>

----------------------------------------------------------------------------
(* the specification *)

\* the state before the startup stage: no entity yet; the first frame has delta 0
Init ==
    /\ stage = "startup"
    /\ ran = {}
    /\ setupRuns = 0
    /\ rng \in Seeds
    /\ transform = <<>>
    /\ sprite = <<>>
    /\ direction = <<>>
    /\ rotationRate = <<>>
    /\ position = <<>>
    /\ printTimer = <<>>
    /\ projection = <<>>
    /\ camera = {}
    /\ time = [delta |-> 0, seconds_since_startup |-> 0]
    /\ windows \in {[primary |-> size] : size \in WindowSizes}
    /\ mouseWheel = <<>>
    /\ wheelRead = 0
    /\ windowResized = <<>>
    /\ stdout = <<>>
    /\ spawned = <<>>

Next ==
    \/ setup
    \/ BeginFrame
    \/ tick
    \/ rotate_entity
    \/ move_camera
    \/ zoom_camera

Spec == Init /\ [][Next]_vars

----------------------------------------------------------------------------
(* Steps and helpers of the claims *)

\* the step in which system s runs
Runs(s) == s \notin ran /\ s \in ran'

SpriteEntitiesNow == DOMAIN sprite

\* +1 for Clockwise, -1 for CounterClockwise
Sign(d) == IF d = "Clockwise" THEN 1 ELSE -1

\* v clamped to [lo, hi]
Clamp(v, lo, hi) == IF v < lo THEN lo ELSE IF v > hi THEN hi ELSE v

\* the sum of the scrolls of a run of wheel events
RECURSIVE SumY(_)
SumY(events) == IF events = <<>> THEN 0 ELSE Head(events).y + SumY(Tail(events))

----------------------------------------------------------------------------
(* C1 *)

\* C1: in every state, every projection's scale lies in [0.1, 1.0]
C1_ScaleInRange ==
    \A e \in DOMAIN projection :
        projection[e].scale >= 100 /\ projection[e].scale <= 1000

\* zoom_camera has read two wheel events, the second a scroll in that the clamp
\* stopped at the lower end of the range
C1_Witness ==
    /\ "zoom_camera" \in ran
    /\ Len(mouseWheel) = 2
    /\ mouseWheel[2].y > 0
    /\ projection[CameraEntity].scale = 100

----------------------------------------------------------------------------
(* C2 *)

\* C2 as stated: the sprites spawned, and every count logged, are (map_size/32)^2
C2_Original ==
    /\ stage = "update" => Cardinality(SpriteEntitiesNow) = (MAP_SIZE \div HALF_DIVISOR) ^ 2
    /\ \A i \in DOMAIN stdout : stdout[i] = (MAP_SIZE \div HALF_DIVISOR) ^ 2

\* C2, amended: map_size/32 is half the side of the grid, the loops running from
\* -map_size/32 up to map_size/32, so the sprites spawned, and every count
\* logged, are (2 * (map_size/32))^2, which is 400
C2_SpriteCount ==
    /\ stage = "update" =>
          Cardinality(SpriteEntitiesNow) = (2 * (MAP_SIZE \div HALF_DIVISOR)) ^ 2
    /\ \A i \in DOMAIN stdout : stdout[i] = (2 * (MAP_SIZE \div HALF_DIVISOR)) ^ 2
    /\ \A i \in DOMAIN stdout : stdout[i] = 400

\* tick has logged a count
C2_Witness == "tick" \in ran /\ stdout # <<>> /\ JustFinished(printTimer[CameraEntity])

----------------------------------------------------------------------------
(* C3 *)

\* C3: after setup the entities with a Sprite are the entities setup spawned other
\* than the camera's, whatever has run, and every count logged is their number
C3_SpritesFixed ==
    stage = "update" =>
        /\ SpriteEntitiesNow = DOMAIN spawned \ {CameraEntity}
        /\ CameraEntity \in DOMAIN spawned
        /\ \A i \in DOMAIN stdout : stdout[i] = Cardinality(DOMAIN spawned) - 1

\* two counts have been logged, frames apart, all four systems having run
C3_Witness == Len(stdout) >= 2 /\ ran = Systems /\ time.delta > 0

----------------------------------------------------------------------------
(* C4 *)

\* the time over which rotate_entity has rotated the sprites
Rotated ==
    IF "rotate_entity" \in ran THEN time.seconds_since_startup
    ELSE time.seconds_since_startup - time.delta

\* C4: a run of rotate_entity takes every sprite's angle to
\* angle + sign * rate * dt modulo a full turn, and in every state the angle is
\* the spawned angle plus sign * rate * (the time rotated) modulo a full turn
C4_Rotation ==
    /\ [][Runs("rotate_entity") =>
            \A e \in SpriteEntitiesNow :
                transform'[e].rotation =
                    (transform[e].rotation
                       + (Sign(direction[e]) * rotationRate[e] * time.delta) \div 1000)
                    % FULL_TURN]_vars
    /\ [](stage = "update" =>
            \A e \in SpriteEntitiesNow :
                transform[e].rotation =
                    (spawned[e] + (Sign(direction[e]) * rotationRate[e] * Rotated) \div 1000)
                    % FULL_TURN)

\* rotate_entity has turned a clockwise sprite forward and a counter-clockwise
\* sprite back through zero
C4_Witness ==
    /\ "rotate_entity" \in ran
    /\ time.delta > 0
    /\ \E e \in SpriteEntitiesNow :
        /\ direction[e] = "Clockwise"
        /\ transform[e].rotation > spawned[e]
    /\ \E e \in SpriteEntitiesNow :
        /\ direction[e] = "CounterClockwise"
        /\ transform[e].rotation > spawned[e]

----------------------------------------------------------------------------
(* C5 *)

\* C5: in every frame rotate_entity has run only if tick has, move_camera and
\* zoom_camera only if rotate_entity has; setup has run once when any of them
\* runs, and never again
C5_Order ==
    /\ "rotate_entity" \in ran => "tick" \in ran
    /\ "move_camera" \in ran => "rotate_entity" \in ran
    /\ "zoom_camera" \in ran => "rotate_entity" \in ran
    /\ stage = "startup" => setupRuns = 0 /\ ran = {} /\ stdout = <<>>
    /\ stage = "update" => setupRuns = 1

\* a frame in which zoom_camera has run and move_camera has not yet
C5_Witness == ran = {"tick", "rotate_entity", "zoom_camera"} /\ setupRuns = 1

----------------------------------------------------------------------------
(* C6 *)

\* the timer's elapsed time and the frame's delta reach the timer's duration
TimerElapses == printTimer[CameraEntity].elapsed + time.delta >= 1000

\* C6 as stated, a line for every time the one-second timer has elapsed: once
\* tick has run in a frame, the lines logged are as many as the whole seconds
\* since startup
C6_Original ==
    "tick" \in ran => Len(stdout) = time.seconds_since_startup \div 1000

\* C6, amended: tick logs the current sprite count once in every frame in which
\* the timer elapses, also when the frame's dt spans several one-second
\* intervals (one line then, not one per interval), and logs nothing in a frame
\* in which the timer does not elapse
C6_LogPerFrame ==
    [][Runs("tick") =>
        stdout' = IF TimerElapses
                  THEN Append(stdout, Cardinality(SpriteEntitiesNow))
                  ELSE stdout]_vars

\* tick has run in a frame that spans two intervals of the timer, and logged one line
C6_Witness ==
    /\ "tick" \in ran
    /\ printTimer[CameraEntity].times_finished = 2
    /\ time.seconds_since_startup = 2000
    /\ Len(stdout) = 1

----------------------------------------------------------------------------
(* C7 *)

\* the scale after the first k of the events, each event clamped on its own
RECURSIVE ScaleAfter(_, _, _)
ScaleAfter(scale, events, k) ==
    IF k = 0 THEN scale
    ELSE Clamp(ScaleAfter(scale, events, k - 1) - (events[k].y * 25) \div 1000,
               100, 1000)

\* C7: zoom_camera takes the scale through the frame's wheel events in arrival
\* order, clamping scale - scrollY * 0.025 to [0.1, 1.0] after each one, and
\* leaves the scale as it is in a frame without a wheel event
C7_ZoomPerEvent ==
    [][Runs("zoom_camera") =>
        /\ \A e \in DOMAIN projection :
              projection'[e].scale =
                  ScaleAfter(projection[e].scale, Unread(mouseWheel, wheelRead),
                             Len(Unread(mouseWheel, wheelRead)))
        /\ Unread(mouseWheel, wheelRead) = <<>> => projection' = projection]_vars

\* zoom_camera has read a scroll out past the range and then a scroll in: the scale
\* is below 1.0, where one clamp of the summed scroll would have left it at 1.0
C7_Witness ==
    /\ "zoom_camera" \in ran
    /\ Len(mouseWheel) = 2
    /\ mouseWheel[1].y < -40000
    /\ mouseWheel[2].y = 16000
    /\ projection[CameraEntity].scale = 600
    /\ Clamp(projection[CameraEntity].scale - (SumY(mouseWheel) * 25) \div 1000,
             100, 1000) = 1000

----------------------------------------------------------------------------
(* C8 *)

\* C8: once zoom_camera has run in a frame, the window-resized notifications of
\* the frame are one per wheel event of the frame, each for the primary window
\* with the window's current width and height; before it has run, and in a
\* frame without a wheel event, there is none
C8_Resized ==
    /\ "zoom_camera" \notin ran => windowResized = <<>>
    /\ "zoom_camera" \in ran =>
          /\ Len(windowResized) = Len(mouseWheel)
          /\ \A i \in DOMAIN windowResized :
                windowResized[i] = [id |-> "primary",
                                    width |-> windows.primary.width,
                                    height |-> windows.primary.height]

\* zoom_camera has sent two notifications with the size of a resized window, the
\* scale being where the clamp holds it
C8_Witness ==
    /\ "zoom_camera" \in ran
    /\ Len(windowResized) = 2
    /\ windowResized[2].width = 800000
    /\ mouseWheel[2].y < 0
    /\ projection[CameraEntity].scale = 1000

----------------------------------------------------------------------------
(* C9 *)

\* the vector u moved by the length len along direction a of the plane
Along(u, a, len) ==
    [plane |-> NonZero([b \in DOMAIN u.plane \cup {a} |->
                           Coef(u.plane, b) + (IF b = a THEN len ELSE 0)]),
     z |-> u.z]

\* C9: a run of move_camera turns the pose by 0.5 * dt, moves it by
\* CAMERA_SPEED * dt along the X axis as turned by the new rotation, and copies
\* the pose's translation to the render transform, whose rotation advances by
\* dt / 2, as much as the pose's
C9_MoveCamera ==
    [][Runs("move_camera") =>
        \A e \in camera :
            /\ position'[e].rotation
                  = (position[e].rotation + time.delta \div 2) % FULL_TURN
            /\ position'[e].translation
                  = Along(position[e].translation, position'[e].rotation,
                          10 * time.delta)
            /\ transform'[e].translation = position'[e].translation
            /\ transform'[e].rotation
                  = (transform[e].rotation + time.delta \div 2) % FULL_TURN
            /\ (transform'[e].rotation - transform[e].rotation) % FULL_TURN
                  = (position'[e].rotation - position[e].rotation) % FULL_TURN
            /\ transform'[e].rotation = position'[e].rotation]_vars

\* move_camera has run in two frames: the pose has moved along the X axis turned
\* by a quarter of a radian and then along the X axis turned by half a radian
C9_Witness ==
    /\ "move_camera" \in ran
    /\ position[CameraEntity].rotation = 500
    /\ DOMAIN position[CameraEntity].translation.plane = {250, 500}
    /\ position[CameraEntity].translation.plane[250] = 5000
    /\ transform[CameraEntity].translation = position[CameraEntity].translation
    /\ transform[CameraEntity].translation.z = 1000000

----------------------------------------------------------------------------
(* C10 *)

\* the sprites are as they were, but for their rotation
SpritesKept ==
    /\ sprite' = sprite
    /\ direction' = direction
    /\ rotationRate' = rotationRate
    /\ DOMAIN transform' = DOMAIN transform
    /\ \A e \in SpriteEntitiesNow :
          /\ transform'[e].translation = transform[e].translation
          /\ transform'[e].scale = transform[e].scale

\* the sprites are as they were, rotation too
SpritesUntouched ==
    /\ SpritesKept
    /\ \A e \in SpriteEntitiesNow : transform'[e].rotation = transform[e].rotation

\* the camera's entity is as it was
CameraUntouched ==
    /\ transform'[CameraEntity] = transform[CameraEntity]
    /\ UNCHANGED <<position, projection, printTimer, camera>>

\* a sprite sits on a cell of the grid: a whole number of tiles along X and along Y
OnGrid(v) ==
    /\ DOMAIN v.plane \subseteq {0, FULL_TURN \div 4}
    /\ \A a \in DOMAIN v.plane : v.plane[a] % 64000 = 0

\* C10: after setup every step keeps each sprite's translation, scale, Direction
\* and RotationRate, the translation a cell of the grid; rotate_entity changes
\* the sprites' rotations and nothing else, the camera's entity least of all;
\* tick changes the timer and the log, move_camera the camera's pose and render
\* transform, zoom_camera the projection, its reader and the notifications, and
\* none of the three a sprite
C10_Frame ==
    /\ [][stage = "update" => SpritesKept]_vars
    /\ [][Runs("rotate_entity") =>
            /\ CameraUntouched
            /\ UNCHANGED <<stdout, windowResized, mouseWheel, wheelRead, windows, time>>]_vars
    /\ [][Runs("tick") =>
            /\ SpritesUntouched
            /\ UNCHANGED <<transform, position, projection, windowResized, mouseWheel,
                           wheelRead, windows, time>>]_vars
    /\ [][Runs("move_camera") =>
            /\ SpritesUntouched
            /\ UNCHANGED <<projection, printTimer, stdout, windowResized, mouseWheel,
                           wheelRead, windows, time>>]_vars
    /\ [][Runs("zoom_camera") =>
            /\ SpritesUntouched
            /\ UNCHANGED <<transform, position, printTimer, stdout, mouseWheel, windows,
                           time>>]_vars
    /\ [](\A e \in SpriteEntitiesNow : OnGrid(transform[e].translation))

\* a frame of some length in which all four systems have run: the sprites have
\* turned, the camera has moved, the zoom has changed, and the sprite spawned
\* first is on the cell of x = -10 and y = -10
C10_Witness ==
    /\ ran = Systems
    /\ time.delta > 0
    /\ \E e \in SpriteEntitiesNow : transform[e].rotation # spawned[e]
    /\ DOMAIN position[CameraEntity].translation.plane # {}
    /\ projection[CameraEntity].scale = 600
    /\ transform[CameraEntity + 1].translation.plane
          = (0 :> -640000) @@ (FULL_TURN \div 4 :> -640000)

====
